---- MODULE Spec2Model ----
(***************************************************************************)
(* Model of the XLSX patch engine, src/xlsx/app/xlsx_generator.py          *)
(* (class XLSXGenerator).  One call of generate() is a run of the state    *)
(* machine: Generate, then one LoopItem per part of the archive, with the  *)
(* loop of _update_cells unrolled into UpdateCell steps, then Finish.      *)
(* The endpoint of src/xlsx/app/main.py (generate_xlsx, Construct,         *)
(* Respond) and the interleaving of several invocations (Switch) are       *)
(* actions of the specifications SpecApi and SpecConc.                     *)
(*                                                                         *)
(* Text that the code parses, compares or concatenates (cell references,   *)
(* shared strings, cell values, row numbers) is a sequence of one-letter   *)
(* strings, so that str(), int(), the regular expressions and the string   *)
(* comparison are computed and not assumed.                                *)
(***************************************************************************)
EXTENDS Integers, Sequences, FiniteSets, TLC

\* ------------------------------------------------------------------ text

UpperChars ==
    << "A", "B", "C", "D", "E", "F", "G", "H", "I", "J", "K", "L", "M",
       "N", "O", "P", "Q", "R", "S", "T", "U", "V", "W", "X", "Y", "Z" >>

DigitChars == << "0", "1", "2", "3", "4", "5", "6", "7", "8", "9" >>

SpaceChars == { " ", "\t", "\n", "\r" }

Range(s) == { s[j] : j \in 1..Len(s) }

IsUpper(ch) == ch \in Range(UpperChars)

IsDigit(ch) == ch \in Range(DigitChars)

\* ord() of an upper-case letter, relative to "A"
UpperOrd(ch) == CHOOSE j \in 1..Len(UpperChars) : UpperChars[j] = ch

DigitVal(ch) == (CHOOSE j \in 1..Len(DigitChars) : DigitChars[j] = ch) - 1

\* str(n) for a non-negative int
RECURSIVE PyStrInt(_)
PyStrInt(n) ==
    IF n < 10 THEN << DigitChars[n + 1] >>
    ELSE PyStrInt(n \div 10) \o << DigitChars[(n % 10) + 1] >>

\* int(s) for a string of decimal digits (leading zeros allowed)
RECURSIVE PyInt(_)
PyInt(s) ==
    IF Len(s) = 0 THEN 0
    ELSE 10 * PyInt(SubSeq(s, 1, Len(s) - 1)) + DigitVal(s[Len(s)])

\* "".join(parts)
RECURSIVE Join(_)
Join(parts) ==
    IF Len(parts) = 0 THEN << >> ELSE Head(parts) \o Join(Tail(parts))

\* Python's s1 < s2 on strings of upper-case letters: code point order,
\* a proper prefix is smaller
RECURSIVE StrLess(_, _)
StrLess(s1, s2) ==
    IF Len(s2) = 0 THEN FALSE
    ELSE IF Len(s1) = 0 THEN TRUE
    ELSE IF s1[1] # s2[1] THEN UpperOrd(s1[1]) < UpperOrd(s2[1])
    ELSE StrLess(Tail(s1), Tail(s2))

\* ------------------------------------------------- cell references (regex)

\* length of the longest run of upper-case letters of s starting at j
RECURSIVE UpperRun(_, _)
UpperRun(s, j) ==
    IF j <= Len(s) /\ IsUpper(s[j]) THEN 1 + UpperRun(s, j + 1) ELSE 0

\* length of the longest run of digits of s starting at j
RECURSIVE DigitRun(_, _)
DigitRun(s, j) ==
    IF j <= Len(s) /\ IsDigit(s[j]) THEN 1 + DigitRun(s, j + 1) ELSE 0

\* re.match(r"([A-Z]+)(\d+)", ref): a match of a prefix of ref
ReMatch(ref) ==
    LET nl == UpperRun(ref, 1)
        nd == DigitRun(ref, nl + 1)
    IN  IF nl >= 1 /\ nd >= 1
        THEN [ ok |-> TRUE, col |-> SubSeq(ref, 1, nl),
               digits |-> SubSeq(ref, nl + 1, nl + nd) ]
        ELSE [ ok |-> FALSE, col |-> << >>, digits |-> << >> ]

\* _get_row_number: the row number, or the ValueError
_get_row_number(cell_ref) ==
    LET m == ReMatch(cell_ref)
    IN  IF ~m.ok THEN [ raised |-> TRUE, row_num |-> 0 ]
        ELSE [ raised |-> FALSE, row_num |-> PyInt(m.digits) ]

\* _compare_cell_refs: negative, zero or positive
_compare_cell_refs(ref1, ref2) ==
    LET m1 == ReMatch(ref1)
        m2 == ReMatch(ref2)
    IN  IF ~m1.ok \/ ~m2.ok THEN 0
        ELSE IF StrLess(m1.col, m2.col) THEN -1
        ELSE IF StrLess(m2.col, m1.col) THEN 1
        ELSE PyInt(m1.digits) - PyInt(m2.digits)

\* ------------------------------------------------------ the worksheet tree

\* an attribute that the element does not carry: of a token attribute (t, s)
\* and of a text attribute (r)
NoAttr == "(absent)"

NoText == << "(absent)" >>

\* etree.Element("row", attrib={"r": str(row_num)})
NewRow(row_num) == [ r |-> PyStrInt(row_num), attrs |-> NoAttr, cells |-> << >> ]

\* etree.Element("c", attrib={"r": cell_ref})
NewCell(cell_ref) == [ r |-> cell_ref, t |-> NoAttr, s |-> NoAttr, kids |-> << >> ]

\* etree.SubElement(cell, "v") with its text
VChild(text) == [ tag |-> "v", text |-> text ]

\* int(row.get("r", 0))
RowNumber(row) == IF row.r = NoText THEN 0 ELSE PyInt(row.r)

\* cell.get("r", "")
CellRef(cell) == IF cell.r = NoText THEN << >> ELSE cell.r

Min(S) == CHOOSE m \in S : \A n \in S : m <= n

\* parent.insert(j - 1, e): e becomes the j-th child
InsertAt(s, j, e) == SubSeq(s, 1, j - 1) \o << e >> \o SubSeq(s, j, Len(s))

\* _find_or_create_row with the sorted insertion left out: a row that is not
\* found is appended
FindOrCreateRowAppend(rows, row_num) ==
    LET found == { j \in 1..Len(rows) : RowNumber(rows[j]) = row_num }
    IN  IF found # {} THEN [ rows |-> rows, at |-> Min(found) ]
        ELSE [ rows |-> Append(rows, NewRow(row_num)), at |-> Len(rows) + 1 ]

\* _find_or_create_row on the row children of sheetData: the children after
\* the call and the position of the row found or created
_find_or_create_row(rows, row_num) ==
    LET found   == { j \in 1..Len(rows) : RowNumber(rows[j]) = row_num }
        greater == { j \in 1..Len(rows) : RowNumber(rows[j]) > row_num }
    IN  IF found # {} THEN [ rows |-> rows, at |-> Min(found) ]
        ELSE IF greater # {}
        THEN [ rows |-> InsertAt(rows, Min(greater), NewRow(row_num)),
               at |-> Min(greater) ]
        ELSE [ rows |-> Append(rows, NewRow(row_num)), at |-> Len(rows) + 1 ]

\* _find_or_create_cell with the scan for an existing cell left out
FindOrCreateCellNoScan(cells, cell_ref) ==
    LET before == { j \in 1..Len(cells) :
                      _compare_cell_refs(cell_ref, CellRef(cells[j])) < 0 }
    IN  IF before # {}
        THEN [ cells |-> InsertAt(cells, Min(before), NewCell(cell_ref)),
               at |-> Min(before) ]
        ELSE [ cells |-> Append(cells, NewCell(cell_ref)), at |-> Len(cells) + 1 ]

\* _find_or_create_cell on the c children of a row: the children after the
\* call and the position of the cell found or created
_find_or_create_cell(cells, cell_ref) ==
    LET found  == { j \in 1..Len(cells) : cells[j].r = cell_ref }
        before == { j \in 1..Len(cells) :
                      _compare_cell_refs(cell_ref, CellRef(cells[j])) < 0 }
    IN  IF found # {} THEN [ cells |-> cells, at |-> Min(found) ]
        ELSE IF before # {}
        THEN [ cells |-> InsertAt(cells, Min(before), NewCell(cell_ref)),
               at |-> Min(before) ]
        ELSE [ cells |-> Append(cells, NewCell(cell_ref)), at |-> Len(cells) + 1 ]

\* the formula test on the type attribute instead of the f child
HasFormulaType(cell) == cell.t = "f"

\* cell.find("ws:f") is not None
HasFormula(cell) == \E j \in 1..Len(cell.kids) : cell.kids[j].tag = "f"

\* every child of the cell is removed
RemoveAllKids(kids) == << >>

\* the children of the cell left by the removal of every v and is child
RECURSIVE RemoveValues(_)
RemoveValues(kids) ==
    IF Len(kids) = 0 THEN << >>
    ELSE IF Head(kids).tag \in { "v", "is" } THEN RemoveValues(Tail(kids))
    ELSE << Head(kids) >> \o RemoveValues(Tail(kids))

\* ------------------------------------------------------------ Python values

\* a value of the update mapping: type is "int", "float", "bool" or "str";
\* n is the number of an int, 0 or 1 of a bool; s is the text of a str and
\* the repr of a float
PyValue(type, n, s) == [ type |-> type, n |-> n, s |-> s ]

\* str(value)
PyStr(value) ==
    CASE value.type = "int"   -> PyStrInt(value.n)
      [] value.type = "float" -> value.s
      [] value.type = "bool"  ->
            IF value.n = 1 THEN << "T", "r", "u", "e" >>
            ELSE << "F", "a", "l", "s", "e" >>
      [] OTHER -> value.s

\* isinstance(value, (int, float)): a bool is an int
IsNumericOrBool(value) == value.type \in { "int", "float", "bool" }

\* isinstance(value, (int, float)) and not isinstance(value, bool)
IsNumeric(value) == value.type \in { "int", "float" }

\* string_table.index(str_val), counted from 0
ListIndex(string_table, str_val) ==
    Min({ j \in 1..Len(string_table) : string_table[j] = str_val }) - 1

\* SetValue with use_shared_strings taken as true whatever the package holds
SetValueAlwaysShared(cell, value, string_table, use_shared_strings) ==
    LET kept == RemoveValues(cell.kids)
    IN  IF IsNumeric(value)
        THEN [ cell |-> [ cell EXCEPT !.t = NoAttr,
                                      !.kids = Append(kept, VChild(PyStr(value))) ],
               string_table |-> string_table ]
        ELSE LET str_val == PyStr(value)
                 present == str_val \in Range(string_table)
                 str_idx == IF present THEN ListIndex(string_table, str_val)
                            ELSE Len(string_table)
             IN  [ cell |-> [ cell EXCEPT !.t = "s",
                                          !.kids = Append(kept, VChild(PyStrInt(str_idx))) ],
                   string_table |-> IF present THEN string_table
                                    ELSE Append(string_table, str_val) ]

\* SetValue with the lookup of the text in the table left out: every text
\* is appended
SetValueAlwaysAppend(cell, value, string_table, use_shared_strings) ==
    LET kept == RemoveValues(cell.kids)
    IN  IF IsNumeric(value)
        THEN [ cell |-> [ cell EXCEPT !.t = NoAttr,
                                      !.kids = Append(kept, VChild(PyStr(value))) ],
               string_table |-> string_table ]
        ELSE IF use_shared_strings
        THEN [ cell |-> [ cell EXCEPT !.t = "s",
                                      !.kids = Append(kept, VChild(PyStrInt(Len(string_table)))) ],
               string_table |-> Append(string_table, PyStr(value)) ]
        ELSE [ cell |-> [ cell EXCEPT !.t = "str",
                                      !.kids = Append(kept, VChild(PyStr(value))) ],
               string_table |-> string_table ]

\* lines 223-252 of _update_cells: the cell and the string table after the
\* value is set
SetValue(cell, value, string_table, use_shared_strings) ==
    LET kept == RemoveValues(cell.kids)
    IN  IF IsNumeric(value)
        THEN [ cell |-> [ cell EXCEPT !.t = NoAttr,
                                      !.kids = Append(kept, VChild(PyStr(value))) ],
               string_table |-> string_table ]
        ELSE IF use_shared_strings
        THEN LET str_val == PyStr(value)
                 present == str_val \in Range(string_table)
                 str_idx == IF present THEN ListIndex(string_table, str_val)
                            ELSE Len(string_table)
             IN  [ cell |-> [ cell EXCEPT !.t = "s",
                                          !.kids = Append(kept, VChild(PyStrInt(str_idx))) ],
                   string_table |-> IF present THEN string_table
                                    ELSE Append(string_table, str_val) ]
        ELSE [ cell |-> [ cell EXCEPT !.t = "str",
                                      !.kids = Append(kept, VChild(PyStr(value))) ],
               string_table |-> string_table ]

\* the body of the loop of _update_cells (lines 209-252) for one update:
\* the rows and the string table after it, or the ValueError
UpdateOne(rows, cell_ref, value, string_table, use_shared_strings) ==
    LET rn == _get_row_number(cell_ref)
    IN  IF rn.raised
        THEN [ raised |-> TRUE, rows |-> rows, string_table |-> string_table ]
        ELSE
        LET fr   == _find_or_create_row(rows, rn.row_num)
            fc   == _find_or_create_cell(fr.rows[fr.at].cells, cell_ref)
            cell == fc.cells[fc.at]
            set  == IF HasFormula(cell)
                    THEN [ cell |-> cell, string_table |-> string_table ]
                    ELSE SetValue(cell, value, string_table, use_shared_strings)
        IN  [ raised |-> FALSE,
              rows |-> [ fr.rows EXCEPT ![fr.at].cells =
                            [ fc.cells EXCEPT ![fc.at] = set.cell ] ],
              string_table |-> set.string_table ]

\* -------------------------------------------------------------- the package

\* part names, as the segments between the slashes
SharedStringsName == << "xl", "sharedStrings.xml" >>

WorkbookName == << "xl", "workbook.xml" >>

RelsName == << "xl", "_rels", "workbook.xml.rels" >>

\* zf.read(name): the data of the part of that name
ZipRead(zf, name) ==
    zf[CHOOSE j \in 1..Len(zf) : zf[j].filename = name].data

\* zf.namelist()
NameList(zf) == { zf[j].filename : j \in 1..Len(zf) }

\* zout.writestr(item.filename, data): the entry gets the compression method
\* the output archive was opened with
WriteStrByName(item, data) ==
    [ filename |-> item.filename, compress_type |-> "deflated", data |-> data ]

\* zout.writestr(item, data): the entry keeps the name and the compression
\* method of the ZipInfo it is written under
WriteStr(item, data) ==
    [ filename |-> item.filename, compress_type |-> item.compress_type,
      data |-> data ]

\* an exception: its type, its message and the value the message quotes
Raised(type, msg, arg) == [ type |-> type, msg |-> msg, arg |-> arg ]

NoError == Raised("", "", << >>)

\* _resolve_relationship: the package-rooted path of the first relationship
\* with that Id, or the ValueError
_resolve_relationship(zf, rel_id) ==
    LET rels  == ZipRead(zf, RelsName).rels
        found == { j \in 1..Len(rels) : rels[j].Id = rel_id }
    IN  IF found = {}
        THEN [ raised |-> TRUE, path |-> << >>,
               error |-> Raised("ValueError", "Relationship ID not found", << rel_id >>) ]
        ELSE LET target == rels[Min(found)].Target
             IN  [ raised |-> FALSE,
                   path |-> IF Len(target) > 1 /\ target[1] = "xl" THEN target
                            ELSE << "xl" >> \o target,
                   error |-> NoError ]

\* _find_first_sheet_path
_find_first_sheet_path(zf) ==
    LET wb == ZipRead(zf, WorkbookName)
    IN  IF ~wb.hasSheets
        THEN [ raised |-> TRUE, path |-> << >>,
               error |-> Raised("ValueError", "Unable to find <sheets> element", << >>) ]
        ELSE IF Len(wb.sheets) = 0
        THEN [ raised |-> TRUE, path |-> << >>,
               error |-> Raised("ValueError", "No sheets found in workbook", << >>) ]
        ELSE _resolve_relationship(zf, wb.sheets[1].rid)

\* the sheet entry is the last one of that name
FindSheetPathByNameLast(zf, name) ==
    LET wb    == ZipRead(zf, WorkbookName)
        found == { j \in 1..Len(wb.sheets) : wb.sheets[j].name = name }
    IN  IF ~wb.hasSheets
        THEN [ raised |-> TRUE, path |-> << >>,
               error |-> Raised("ValueError", "Unable to find <sheets> element", << >>) ]
        ELSE IF found = {}
        THEN [ raised |-> TRUE, path |-> << >>,
               error |-> Raised("ValueError", "Sheet named not found", << name >>) ]
        ELSE _resolve_relationship(zf, wb.sheets[CHOOSE j \in found : \A k \in found : k <= j].rid)

\* _find_sheet_path_by_name
_find_sheet_path_by_name(zf, name) ==
    LET wb    == ZipRead(zf, WorkbookName)
        found == { j \in 1..Len(wb.sheets) : wb.sheets[j].name = name }
    IN  IF ~wb.hasSheets
        THEN [ raised |-> TRUE, path |-> << >>,
               error |-> Raised("ValueError", "Unable to find <sheets> element", << >>) ]
        ELSE IF found = {}
        THEN [ raised |-> TRUE, path |-> << >>,
               error |-> Raised("ValueError", "Sheet named not found", << name >>) ]
        ELSE _resolve_relationship(zf, wb.sheets[Min(found)].rid)

\* the text that _parse_shared_strings appends for one si element
SiText(si) ==
    IF si.t # NoText /\ Len(si.t) > 0 THEN si.t
    ELSE Join(SelectSeq(si.runs, LAMBDA t : t # NoText /\ Len(t) > 0))

\* the strings appended for a list of si elements
RECURSIVE SiTexts(_)
SiTexts(sis) ==
    IF Len(sis) = 0 THEN << >> ELSE << SiText(Head(sis)) >> \o SiTexts(Tail(sis))

\* _parse_shared_strings: one string per si element, in order
_parse_shared_strings(xml) == SiTexts(xml.sis)

\* text[0].isspace() or text[-1].isspace(), of a non-empty text
EdgeSpace(text) ==
    Len(text) > 0 /\ (text[1] \in SpaceChars \/ text[Len(text)] \in SpaceChars)

\* the si elements that _rebuild_shared_strings writes for a list of strings
RECURSIVE SiElements(_)
SiElements(texts) ==
    IF Len(texts) = 0 THEN << >>
    ELSE << [ t |-> Head(texts), runs |-> << >>, space |-> EdgeSpace(Head(texts)) ] >>
         \o SiElements(Tail(texts))

\* _rebuild_shared_strings: the part serialized from the list
_rebuild_shared_strings(string_table) ==
    [ kind |-> "sst", decl |-> TRUE,
      count |-> PyStrInt(Len(string_table)),
      uniqueCount |-> PyStrInt(Len(string_table)),
      sis |-> SiElements(string_table) ]

\* the part is taken for a worksheet whatever its children
HasSheetDataUnchecked(xml) == xml.kind = "sheet"

\* etree.fromstring(sheet_xml).find("ws:sheetData") is not None
HasSheetData(xml) == xml.kind = "sheet" /\ xml.hasSheetData

\* etree.tostring(root, xml_declaration=False) of the patched tree
SheetToString(xml, rows) == [ xml EXCEPT !.decl = FALSE, !.rows = rows ]

\* ------------------------------------------------------------- the templates

Old == << "o", "l", "d" >>

New == << "n", "e", "w" >>

Neu == << "n", "e", "u" >>

Other == << "x" >>

\* a c element
Cell(r, t, s, kids) == [ r |-> r, t |-> t, s |-> s, kids |-> kids ]

\* a row element
Row(r, attrs, cells) == [ r |-> r, attrs |-> attrs, cells |-> cells ]

\* a worksheet part: row 1 holds a cell A1 and a formula cell B1 with its
\* cached value, row 3 a styled number C3.  A1 refers to entry 0 of the
\* shared strings, is a number when they have no entry, and an inline string
\* when the package has no shared-strings part (variant "none")
SheetXml(variant) ==
    [ kind |-> "sheet", decl |-> TRUE, hasSheetData |-> TRUE,
      rows |-> <<
        Row(<< "1" >>, "ht=20", <<
            CASE variant = "none" ->
                    Cell(<< "A", "1" >>, "inlineStr", "1", << [ tag |-> "is", text |-> Old ] >>)
              [] variant = "empty" ->
                    Cell(<< "A", "1" >>, NoAttr, "1", << [ tag |-> "v", text |-> << "9" >> ] >>)
              [] OTHER ->
                    Cell(<< "A", "1" >>, "s", "1", << [ tag |-> "v", text |-> << "0" >> ] >>),
            Cell(<< "B", "1" >>, "str", NoAttr,
                 << [ tag |-> "f", text |-> << "A", "1" >> ],
                    [ tag |-> "v", text |-> Old ] >>) >>),
        Row(<< "3" >>, NoAttr, <<
            Cell(<< "C", "3" >>, NoAttr, "2", << [ tag |-> "v", text |-> << "7" >> ] >>) >>)
      >> ]

\* the second worksheet part
Sheet2Xml ==
    [ kind |-> "sheet", decl |-> TRUE, hasSheetData |-> TRUE,
      rows |-> << Row(<< "1" >>, NoAttr, <<
            Cell(<< "A", "1" >>, NoAttr, NoAttr, << [ tag |-> "v", text |-> << "5" >> ] >>) >>) >> ]

\* a worksheet part for the insertions: row 2 holds C2, row 4 holds A4
GridXml ==
    [ kind |-> "sheet", decl |-> TRUE, hasSheetData |-> TRUE,
      rows |-> <<
        Row(<< "2" >>, NoAttr, <<
            Cell(<< "C", "2" >>, NoAttr, NoAttr, << [ tag |-> "v", text |-> << "1" >> ] >>) >>),
        Row(<< "4" >>, NoAttr, <<
            Cell(<< "A", "4" >>, NoAttr, "2", << [ tag |-> "v", text |-> << "2" >> ] >>) >>)
      >> ]

WorkbookXml ==
    [ kind |-> "workbook", hasSheets |-> TRUE,
      sheets |-> << [ name |-> "Sheet1", rid |-> "rId1" ],
                    [ name |-> "Sheet2", rid |-> "rId2" ] >> ]

\* the relationships part; the target of the first sheet is relative to xl/
\* or, when rooted, begins with a slash (an empty first segment)
RelsXml(rooted) ==
    [ kind |-> "rels",
      rels |-> << [ Id |-> "rId3", Target |-> << "styles.xml" >> ],
                  [ Id |-> "rId1",
                    Target |-> IF rooted
                               THEN << "", "xl", "worksheets", "sheet1.xml" >>
                               ELSE << "worksheets", "sheet1.xml" >> ],
                  [ Id |-> "rId2", Target |-> << "xl", "worksheets", "sheet2.xml" >> ] >> ]

\* an si element: a plain one and a rich-text one
Si(t) == [ t |-> t, runs |-> << >>, space |-> FALSE ]

RichSi(runs) == [ t |-> NoText, runs |-> runs, space |-> FALSE ]

\* shared-strings parts: without entries; as _rebuild_shared_strings writes
\* them; and with a rich-text entry that flattens to the text of entry 0 and
\* a count of the references that differs from uniqueCount
SstXml(variant) ==
    CASE variant = "empty" ->
            [ kind |-> "sst", decl |-> TRUE, count |-> << "0" >>,
              uniqueCount |-> << "0" >>, sis |-> << >> ]
      [] variant = "plain" ->
            [ kind |-> "sst", decl |-> TRUE, count |-> << "2" >>,
              uniqueCount |-> << "2" >>, sis |-> << Si(Old), Si(Other) >> ]
      [] OTHER ->
            [ kind |-> "sst", decl |-> TRUE, count |-> << "5" >>,
              uniqueCount |-> << "3" >>,
              sis |-> << Si(Old), RichSi(<< << "o" >>, << "l", "d" >> >>), Si(Other) >> ]

Part(filename, compress_type, data) ==
    [ filename |-> filename, compress_type |-> compress_type, data |-> data ]

Raw(bytes) == [ kind |-> "raw", bytes |-> bytes ]

\* a template archive: variant names the shared-strings part ("none" when
\* there is none), sstFirst puts it before the worksheet parts
Package(sheet, variant, sstFirst, rooted) ==
    LET head   == << Part(<< "[Content_Types].xml" >>, "stored", Raw("types")),
                     Part(WorkbookName, "deflated", WorkbookXml),
                     Part(RelsName, "deflated", RelsXml(rooted)) >>
        sheets == << Part(<< "xl", "worksheets", "sheet1.xml" >>, "deflated", sheet),
                     Part(<< "xl", "worksheets", "sheet2.xml" >>, "stored", Sheet2Xml),
                     Part(<< "xl", "styles.xml" >>, "deflated", Raw("styles")) >>
        sst    == IF variant = "none" THEN << >>
                  ELSE << Part(SharedStringsName, "deflated", SstXml(variant)) >>
    IN  IF sstFirst THEN head \o sst \o sheets ELSE head \o sheets \o sst

Templates ==
    { Package(SheetXml(v), v, o, FALSE) :
          v \in { "empty", "plain", "rich" }, o \in BOOLEAN }
    \cup { Package(SheetXml("none"), "none", FALSE, FALSE),
           Package(SheetXml("plain"), "plain", FALSE, TRUE) }

GridTemplates == { Package(GridXml, "plain", FALSE, FALSE) }

\* ------------------------------------------------------------- the requests

\* the longest update mapping of Spec and of SpecGrid
MaxUpdates == 2

MaxGridUpdates == 3

Update(cell_ref, value) == [ cell_ref |-> cell_ref, value |-> value ]

Keys(m) == { m[j].cell_ref : j \in 1..Len(m) }

\* the mappings of n updates, as their items() in iteration order
RECURSIVE MappingsOfLen(_, _, _)
MappingsOfLen(n, refs, values) ==
    IF n = 0 THEN { << >> }
    ELSE UNION { { Append(m, Update(r, v)) : r \in refs \ Keys(m), v \in values } :
                 m \in MappingsOfLen(n - 1, refs, values) }

Mappings(n, refs, values) == UNION { MappingsOfLen(j, refs, values) : j \in 0..n }

\* sheet_name=None
None == "None"

Request(cell_updates, sheet_name) ==
    [ cell_updates |-> cell_updates, sheet_name |-> sheet_name ]

Refs == { << "A", "1" >>, << "B", "1" >>, << "B", "3" >>, << "C", "2" >> }

Values == { PyValue("int", 42, << >>), PyValue("str", 0, Old),
            PyValue("str", 0, New), PyValue("str", 0, Neu) }

Requests ==
    { Request(m, None) : m \in Mappings(MaxUpdates, Refs, Values) }
    \cup { Request(<< Update(<< "B", "3" >>, PyValue("str", 0, New)) >>, n) :
             n \in { "", "Sheet1", "Sheet2", "sheet1" } }

GridRefs ==
    { << "D", "5" >>, << "B", "5" >>, << "Z", "2" >>, << "A", "A", "2" >>,
      << "A", "1" >>, << "B", "3" >>, << "A", "4" >> }

GridValues == { PyValue("int", 42, << >>) }

GridRequests ==
    { Request(m, None) : m \in Mappings(MaxGridUpdates, GridRefs, GridValues) }

\* ---------------------------------------------------------------- the state

VARIABLES
    exists,         \* template_path.exists()
    request,        \* the body of the request the endpoint serves
    response,       \* what the endpoint answers the request with
    others,         \* the frames of the invocations that are not running
    template,       \* the archive at self.template_path
    pc,             \* where the call is: idle, loop, cells, done, raised
    cell_updates,   \* the argument of generate, as the items of the mapping
    sheet_name,     \* the argument of generate
    sheet_path,
    shared_strings_xml,     \* None, or the bytes of xl/sharedStrings.xml
    string_table,
    shared_strings_updated,
    item,           \* the position of the loop over zin.infolist()
    zout,           \* the entries written to the output archive
    rows,           \* the row children of sheet_data in _update_cells
    upd,            \* the position of the loop over cell_updates.items()
    result,         \* the bytes returned
    error           \* the exception raised

vars ==
    << exists, request, response, others, template, pc, cell_updates,
       sheet_name, sheet_path, shared_strings_xml,
       string_table, shared_strings_updated, item, zout, rows, upd, result,
       error >>

\* bytes that were not read: shared_strings_xml = None
NoBytes == [ kind |-> "None" ]

\* what the endpoint answers: the status code and the words of the detail
Response(status, detail) == [ status |-> status, detail |-> detail ]

\* the endpoint has not answered, or serves no request
NoResponse == Response(0, << >>)

\* a GenerateXLSXRequest: data as the items of the mapping
ApiRequest(template_name, data, name) ==
    [ template_name |-> template_name, data |-> data, sheet_name |-> name ]

\* no request is served: the generator is used directly
NoRequest == ApiRequest("", << >>, "None")

\* the locals of an invocation of generate that has not run yet
IdleFrame(req) ==
    [ pc |-> "idle", cell_updates |-> req.cell_updates,
      sheet_name |-> req.sheet_name, sheet_path |-> << >>,
      shared_strings_xml |-> NoBytes, string_table |-> << >>,
      shared_strings_updated |-> FALSE, item |-> 0, zout |-> << >>,
      rows |-> << >>, upd |-> 0, result |-> << >>, error |-> NoError ]

\* the generator constructed on a template, the arguments of the call of
\* generate, and the invocations that wait beside it
InitWith(templates, requests, waiting) ==
    /\ exists = TRUE
    /\ request = NoRequest
    /\ response = NoResponse
    /\ others \in waiting
    /\ template \in templates
    /\ \E req \in requests :
          /\ cell_updates = req.cell_updates
          /\ sheet_name = req.sheet_name
    /\ pc = "idle"
    /\ sheet_path = << >>
    /\ shared_strings_xml = NoBytes
    /\ string_table = << >>
    /\ shared_strings_updated = FALSE
    /\ item = 0
    /\ zout = << >>
    /\ rows = << >>
    /\ upd = 0
    /\ result = << >>
    /\ error = NoError

\* one invocation of generate and no other
InitOn(templates, requests) == InitWith(templates, requests, { << >> })

\* raise: the exception leaves generate, which returns nothing
Raise(e) ==
    /\ pc' = "raised"
    /\ error' = e
    /\ UNCHANGED << exists, request, response, others, template,
                    cell_updates, sheet_name, sheet_path,
                    shared_strings_xml, string_table, shared_strings_updated,
                    item, zout, rows, upd, result >>

\* bool(sheet_name)
Truthy(name) == name # None /\ name # ""

\* a mapping is never taken for empty
FalsyNever(mapping) == FALSE

\* not cell_updates: the mapping has no item
Falsy(mapping) == Len(mapping) = 0

\* generate, lines 52-73: the check of the argument, the sheet path and the
\* string table
Generate ==
    /\ pc = "idle"
    /\ IF Falsy(cell_updates)
       THEN Raise(Raised("ValueError", "cell_updates cannot be empty", << >>))
       ELSE LET found  == IF Truthy(sheet_name)
                          THEN _find_sheet_path_by_name(template, sheet_name)
                          ELSE _find_first_sheet_path(template)
                shared == SharedStringsName \in NameList(template)
                xml    == IF shared THEN ZipRead(template, SharedStringsName)
                          ELSE NoBytes
            IN  IF found.raised THEN Raise(found.error)
                ELSE /\ sheet_path' = found.path
                     /\ shared_strings_xml' = xml
                     /\ string_table' = IF shared THEN _parse_shared_strings(xml)
                                        ELSE << >>
                     /\ shared_strings_updated' = FALSE
                     /\ item' = 1
                     /\ pc' = "loop"
                     /\ UNCHANGED << exists, request, response, others, template,
                                     cell_updates, sheet_name, zout,
                                     rows, upd, result, error >>

\* one pass of the loop of generate, lines 76-92; for the target sheet it
\* enters _update_cells (lines 201-205)
LoopItem ==
    /\ pc = "loop"
    /\ item <= Len(template)
    /\ LET it   == template[item]
           data == ZipRead(template, it.filename)
       IN  IF it.filename = sheet_path
           THEN IF ~HasSheetData(data)
                THEN Raise(Raised("ValueError", "No sheetData element found", << >>))
                ELSE /\ rows' = data.rows
                     /\ upd' = 1
                     /\ pc' = "cells"
                     /\ UNCHANGED << exists, request, response, others, template,
                                     cell_updates, sheet_name, sheet_path,
                                     shared_strings_xml, string_table,
                                     shared_strings_updated, item, zout, result, error >>
           ELSE IF it.filename = SharedStringsName /\ Len(string_table) > 0
           THEN /\ zout' = Append(zout, WriteStr(it, _rebuild_shared_strings(string_table)))
                /\ shared_strings_updated' = TRUE
                /\ item' = item + 1
                /\ UNCHANGED << exists, request, response, others, template,
                                pc, cell_updates, sheet_name, sheet_path,
                                shared_strings_xml, string_table, rows, upd, result,
                                error >>
           ELSE /\ zout' = Append(zout, WriteStr(it, data))
                /\ item' = item + 1
                /\ UNCHANGED << exists, request, response, others, template,
                                pc, cell_updates, sheet_name, sheet_path,
                                shared_strings_xml, string_table,
                                shared_strings_updated, rows, upd, result, error >>

\* one pass of the loop of _update_cells, lines 207-252
UpdateCell ==
    /\ pc = "cells"
    /\ upd <= Len(cell_updates)
    /\ LET u   == cell_updates[upd]
           res == UpdateOne(rows, u.cell_ref, u.value, string_table,
                            shared_strings_xml # NoBytes)
       IN  IF res.raised
           THEN Raise(Raised("ValueError", "Invalid cell reference", u.cell_ref))
           ELSE /\ rows' = res.rows
                /\ string_table' = res.string_table
                /\ upd' = upd + 1
                /\ UNCHANGED << exists, request, response, others, template,
                                pc, cell_updates, sheet_name, sheet_path,
                                shared_strings_xml, shared_strings_updated, item,
                                zout, result, error >>

\* the return of _update_cells (line 254) and the write of the patched part
\* (line 92)
UpdateCellsReturn ==
    /\ pc = "cells"
    /\ upd > Len(cell_updates)
    /\ LET it   == template[item]
           data == SheetToString(ZipRead(template, it.filename), rows)
       IN  zout' = Append(zout, WriteStr(it, data))
    /\ item' = item + 1
    /\ pc' = "loop"
    /\ UNCHANGED << exists, request, response, others, template,
                    cell_updates, sheet_name, sheet_path,
                    shared_strings_xml, string_table, shared_strings_updated,
                    rows, upd, result, error >>

\* the end of the loop: the archives are closed and the buffer is returned
\* (lines 94-95)
Finish ==
    /\ pc = "loop"
    /\ item > Len(template)
    /\ result' = zout
    /\ pc' = "done"
    /\ UNCHANGED << exists, request, response, others, template,
                    cell_updates, sheet_name, sheet_path,
                    shared_strings_xml, string_table, shared_strings_updated,
                    item, zout, rows, upd, error >>

Next ==
    \/ Generate
    \/ LoopItem
    \/ UpdateCell
    \/ UpdateCellsReturn
    \/ Finish

Init == InitOn(Templates, Requests)

Spec == Init /\ [][Next]_vars

GridInit == InitOn(GridTemplates, GridRequests)

SpecGrid == GridInit /\ [][Next]_vars

\* ------------------------------------------------- reading a package back

\* the shared-strings part of the template was read: use_shared_strings
UseSharedStrings == shared_strings_xml # NoBytes

\* the table a reader loads from a package
TableOf(zf) ==
    IF SharedStringsName \in NameList(zf)
    THEN _parse_shared_strings(ZipRead(zf, SharedStringsName))
    ELSE << >>

\* the cells of a worksheet tree with that coordinate
CellsAt(rs, cell_ref) ==
    UNION { { rs[a].cells[b] :
                b \in { b \in 1..Len(rs[a].cells) : rs[a].cells[b].r = cell_ref } } :
            a \in 1..Len(rs) }

\* the texts of the literal-value children of a cell
ValueTexts(cell) ==
    { cell.kids[j].text : j \in { j \in 1..Len(cell.kids) : cell.kids[j].tag = "v" } }

CarriesFormula(cell) == "f" \in { cell.kids[j].tag : j \in 1..Len(cell.kids) }

\* the cell is the formula-free cell a reader resolves to value, against the
\* string table of the same package
ReadsBack(cell, value, table) ==
    /\ ~CarriesFormula(cell)
    /\ IF value.type \in { "int", "float" }
       THEN cell.t = NoAttr /\ ValueTexts(cell) = { PyStr(value) }
       ELSE \/ /\ cell.t = "s"
               /\ \E n \in 0..(Len(table) - 1) :
                     ValueTexts(cell) = { PyStrInt(n) } /\ table[n + 1] = PyStr(value)
            \/ /\ cell.t = "str"
               /\ ValueTexts(cell) = { PyStr(value) }

\* every update of the call went through the loop of _update_cells
AllApplied == pc \in { "cells", "loop", "done" } /\ upd > Len(cell_updates)

\* the update's target is a formula cell of the template's target sheet
TargetsFormula(u) ==
    /\ sheet_path \in NameList(template)
    /\ \E c \in CellsAt(ZipRead(template, sheet_path).rows, u.cell_ref) :
          CarriesFormula(c)

\* C1 (as claimed): after generate(), whatever the order of the parts, every
\* target coordinate without a formula reads back from the output package as
\* the value written, a text through the shared-strings part of that output
RoundTrip ==
    (pc = "done" /\ sheet_path \in NameList(result)) =>
        \A j \in 1..Len(cell_updates) :
            LET u == cell_updates[j]
            IN  \A c \in CellsAt(ZipRead(result, sheet_path).rows, u.cell_ref) :
                    ~CarriesFormula(c) => ReadsBack(c, u.value, TableOf(result))

\* C2 (as claimed, its second sentence): when no update introduces a text
\* that the table lacks and the table is not empty, the shared-strings part
\* of the output is the part of the input, unchanged
SharedStringsKeptWithoutNew ==
    ( /\ pc = "done"
      /\ Len(TableOf(template)) > 0
      /\ string_table = TableOf(template) )
    => ZipRead(result, SharedStringsName) = ZipRead(template, SharedStringsName)

\* C3: the output holds the parts of the input in their order, each under
\* its name and its compression method, and every part but the target sheet
\* and the shared strings has the bytes of the input; none is added or
\* dropped
PartsPreserved ==
    /\ Len(zout) <= Len(template)
    /\ \A j \in 1..Len(zout) :
          /\ zout[j].filename = template[j].filename
          /\ zout[j].compress_type = template[j].compress_type
          /\ zout[j].filename \notin { sheet_path, SharedStringsName }
                => zout[j].data = template[j].data
    /\ pc = "done" => result = zout /\ Len(result) = Len(template)

\* C3 witness: a package is returned whose target sheet was patched and
\* which holds stored and deflated parts
PartsPreservedWitness ==
    /\ pc = "done"
    /\ sheet_path \in NameList(result)
    /\ ZipRead(result, sheet_path) # ZipRead(template, sheet_path)
    /\ { result[j].compress_type : j \in 1..Len(result) } = { "stored", "deflated" }

\* C4: an update whose target cell carries a formula leaves the rows (the
\* formula, its cached value and the type of the cell) and the string table
\* as they are, raises nothing and goes on to the next update
FormulaCellsSkipped ==
    [][ ( /\ pc = "cells"
          /\ upd <= Len(cell_updates)
          /\ \E c \in CellsAt(rows, cell_updates[upd].cell_ref) : CarriesFormula(c) )
        => ( /\ rows' = rows
             /\ string_table' = string_table
             /\ pc' = "cells"
             /\ upd' = upd + 1 ) ]_vars

\* C4 witness: the update of a formula cell was passed and the next update
\* of the call was applied after it
FormulaCellsSkippedWitness ==
    /\ pc = "done"
    /\ Len(cell_updates) = 2
    /\ TargetsFormula(cell_updates[1])
    /\ ~TargetsFormula(cell_updates[2])
    /\ \E c \in CellsAt(rows, cell_updates[1].cell_ref) :
          c \in CellsAt(ZipRead(template, sheet_path).rows, cell_updates[1].cell_ref)
    /\ \E c \in CellsAt(rows, cell_updates[2].cell_ref) :
          ReadsBack(c, cell_updates[2].value, string_table)

\* C5 (as claimed): when generate() returns bytes, every requested update
\* whose cell has no formula is applied in the target worksheet of the
\* output; otherwise it raises and returns no bytes
AllOrNothing ==
    /\ pc = "done" =>
          /\ sheet_path \in NameList(result)
          /\ \A j \in 1..Len(cell_updates) :
                \E c \in CellsAt(ZipRead(result, sheet_path).rows,
                                 cell_updates[j].cell_ref) :
                    CarriesFormula(c) \/ ReadsBack(c, cell_updates[j].value, string_table)
    /\ pc # "done" => result = << >>

\* the column letters of a cell reference and their number as a reader
\* counts columns: A..Z are 1..26, AA is 27
RECURSIVE ColumnNumber(_)
ColumnNumber(col) ==
    IF Len(col) = 0 THEN 0
    ELSE 26 * ColumnNumber(SubSeq(col, 1, Len(col) - 1)) + UpperOrd(col[Len(col)])

ColumnOf(cell) == ColumnNumber(SubSeq(cell.r, 1, UpperRun(cell.r, 1)))

\* C6 (as claimed): the cells of every row stay in strictly ascending column
\* order as a reader orders columns, A..Z before AA
CellsInColumnOrder ==
    \A a \in 1..Len(rows) :
        \A b, c \in 1..Len(rows[a].cells) :
            b < c => ColumnOf(rows[a].cells[b]) < ColumnOf(rows[a].cells[c])

RowsOfResult ==
    IF pc = "done" /\ sheet_path \in NameList(result)
    THEN ZipRead(result, sheet_path).rows ELSE << >>

StrictlyAscending(rs) ==
    \A a, b \in 1..Len(rs) : a < b => RowNumber(rs[a]) < RowNumber(rs[b])

\* C7: the rows stay in strictly ascending row-number order after every
\* update, in the tree and in the worksheet part written; a new maximum is
\* the last row
RowsAscending ==
    /\ StrictlyAscending(rows)
    /\ StrictlyAscending(RowsOfResult)

\* C7 witness: rows were created below the first row, between the rows and
\* above the last row of the template
RowsAscendingWitness ==
    /\ pc = "done"
    /\ Len(RowsOfResult) = 5
    /\ Len(ZipRead(template, sheet_path).rows) = 2

\* C8: no two rows carry the same row number and no two cells of a row the
\* same coordinate, after every update
NoDuplicates ==
    /\ \A a, b \in 1..Len(rows) : RowNumber(rows[a]) = RowNumber(rows[b]) => a = b
    /\ \A a \in 1..Len(rows) :
          \A b, c \in 1..Len(rows[a].cells) :
              rows[a].cells[b].r = rows[a].cells[c].r => b = c

\* C8 witness: an update of a cell of the template and an update of a new
\* cell in a row of the template were applied: the row and the cell were
\* reused
NoDuplicatesWitness ==
    /\ pc = "done"
    /\ << "A", "4" >> \in Keys(cell_updates)
    /\ << "Z", "2" >> \in Keys(cell_updates)
    /\ Len(rows) = 2
    /\ Len(rows[1].cells) = 2
    /\ Len(rows[2].cells) = 1
    /\ ValueTexts(rows[2].cells[1]) = { << "4", "2" >> }

\* the positions of a text in a table
Positions(table, text) == { p \in 1..Len(table) : table[p] = text }

\* the update writes a text into a cell without a formula
WritesText(u) == ~IsNumeric(u.value) /\ ~TargetsFormula(u)

\* the pairs of updates of the call that write the same text
SameTextPairs ==
    { jk \in (1..Len(cell_updates)) \X (1..Len(cell_updates)) :
        /\ jk[1] < jk[2]
        /\ WritesText(cell_updates[jk[1]])
        /\ WritesText(cell_updates[jk[2]])
        /\ PyStr(cell_updates[jk[1]].value) = PyStr(cell_updates[jk[2]].value) }

\* both cells of the pair are of type s and hold the index of position p
BothStore(jk, p) ==
    \A j \in { jk[1], jk[2] } :
        \A c \in CellsAt(rows, cell_updates[j].cell_ref) :
            c.t = "s" /\ ValueTexts(c) = { PyStrInt(p - 1) }

\* C9 (as claimed): the same text written to two coordinates leaves exactly
\* one table entry equal to it, whose index both cells store
DedupExactlyOne ==
    (AllApplied /\ UseSharedStrings) =>
        \A jk \in SameTextPairs :
            LET at == Positions(string_table, PyStr(cell_updates[jk[1]].value))
            IN  Cardinality(at) = 1 /\ \A p \in at : BothStore(jk, p)

\* C9 (amended): the same text written to two coordinates adds one table
\* entry when the loaded table has none equal to it and no entry when it has
\* one or more, and both cells store the index of the first entry equal to it
DedupFirstEntry ==
    (AllApplied /\ UseSharedStrings) =>
        \A jk \in SameTextPairs :
            LET text   == PyStr(cell_updates[jk[1]].value)
                at     == Positions(string_table, text)
                loaded == Positions(TableOf(template), text)
            IN  /\ Cardinality(at) = IF loaded = {} THEN 1 ELSE Cardinality(loaded)
                /\ BothStore(jk, Min(at))

\* C9 witness: one text that the table lacked was written to two cells and
\* the table grew by one
DedupFirstEntryWitness ==
    /\ AllApplied
    /\ UseSharedStrings
    /\ \E jk \in SameTextPairs :
          Positions(TableOf(template), PyStr(cell_updates[jk[1]].value)) = {}
    /\ Len(string_table) = Len(TableOf(template)) + 1

\* the texts of the updates 1..j that the table lacks, each once, in the
\* order of their first update
RECURSIVE FirstSeenNew(_, _)
FirstSeenNew(j, table) ==
    IF j = 0 THEN << >>
    ELSE LET seen == FirstSeenNew(j - 1, table)
             u    == cell_updates[j]
         IN  IF WritesText(u) /\ PyStr(u.value) \notin Range(table) \cup Range(seen)
             THEN Append(seen, PyStr(u.value))
             ELSE seen

\* C10 (as claimed): the N new strings of a call are appended in first-seen
\* order after the entries of the loaded table, which keep their positions,
\* in the table in memory and in the shared-strings part of the output
AppendOnly ==
    (pc = "done" /\ UseSharedStrings /\ sheet_path \in NameList(template)) =>
        LET loaded == TableOf(template)
            after  == loaded \o FirstSeenNew(Len(cell_updates), loaded)
        IN  string_table = after /\ TableOf(result) = after

\* ------------------------------------------------- malformed coordinates

\* coordinates that are not letters followed by digits, and one that is
RefRefs ==
    { << "3", "B" >>, << "b", "3" >>, << "B" >>, << "B", "3", "x" >>,
      << "B", "3", ":", "C", "4" >>, << "B", "3" >> }

RefValues == { PyValue("int", 42, << >>), PyValue("str", 0, New) }

RefRequests ==
    { Request(m, None) : m \in Mappings(MaxUpdates, RefRefs, RefValues) }

RefTemplates == { Package(SheetXml("plain"), "plain", FALSE, FALSE) }

RefInit == InitOn(RefTemplates, RefRequests)

SpecRefs == RefInit /\ [][Next]_vars

\* the coordinate is one or more upper-case letters followed by one or more
\* digits, and nothing else
WellFormed(cell_ref) ==
    \E k \in 1..(Len(cell_ref) - 1) :
        /\ \A j \in 1..k : IsUpper(cell_ref[j])
        /\ \A j \in (k + 1)..Len(cell_ref) : IsDigit(cell_ref[j])

\* C11: a mapping with a coordinate that is not entirely upper-case letters
\* followed by digits never returns bytes, its call fails with the
\* invalid-cell-reference error that quotes a malformed coordinate, and no
\* cell with that coordinate is created
MalformedRejected ==
    \A j \in 1..Len(cell_updates) :
        ~WellFormed(cell_updates[j].cell_ref)
        => /\ pc # "done"
           /\ result = << >>
           /\ CellsAt(rows, cell_updates[j].cell_ref) = {}
           /\ pc = "raised"
              => /\ error.type = "ValueError"
                 /\ error.msg = "Invalid cell reference"
                 /\ ~WellFormed(error.arg)

\* ----------------------------------------------------- the sheet selection

\* workbook parts: one that declares the name Sheet2 twice, one that declares
\* Sheet2 before Sheet1, one without the sheets element, one whose sheets
\* element has no sheet, one whose first sheet has a relationship identifier
\* that the relationships part does not hold
WorkbookOf(variant) ==
    CASE variant = "twice" ->
            [ kind |-> "workbook", hasSheets |-> TRUE,
              sheets |-> << [ name |-> "Sheet1", rid |-> "rId1" ],
                            [ name |-> "Sheet2", rid |-> "rId2" ],
                            [ name |-> "Sheet2", rid |-> "rId1" ] >> ]
      [] variant = "swapped" ->
            [ kind |-> "workbook", hasSheets |-> TRUE,
              sheets |-> << [ name |-> "Sheet2", rid |-> "rId2" ],
                            [ name |-> "Sheet1", rid |-> "rId1" ] >> ]
      [] variant = "nosheets" ->
            [ kind |-> "workbook", hasSheets |-> FALSE, sheets |-> << >> ]
      [] variant = "nosheet" ->
            [ kind |-> "workbook", hasSheets |-> TRUE, sheets |-> << >> ]
      [] OTHER ->
            [ kind |-> "workbook", hasSheets |-> TRUE,
              sheets |-> << [ name |-> "Sheet1", rid |-> "rId9" ],
                            [ name |-> "Sheet2", rid |-> "rId2" ] >> ]

\* a worksheet part without the sheetData element
NoSheetDataXml ==
    [ kind |-> "sheet", decl |-> TRUE, hasSheetData |-> FALSE, rows |-> << >> ]

\* a template archive with that workbook part and that first worksheet part
PackageOf(workbook, sheet) ==
    [ Package(sheet, "plain", FALSE, FALSE) EXCEPT
        ![2] = Part(WorkbookName, "deflated", workbook) ]

SheetTemplates ==
    { PackageOf(WorkbookOf(v), SheetXml("plain")) :
          v \in { "twice", "swapped", "nosheets", "nosheet", "unrelated" } }
    \cup { PackageOf(WorkbookOf("twice"), NoSheetDataXml) }

SheetNames == { None, "", "Sheet1", "Sheet2", "sheet1", "DoesNotExist" }

SheetRequests ==
    { Request(<< Update(r, PyValue("str", 0, New)) >>, n) :
          r \in { << "A", "1" >>, << "B", "3" >> }, n \in SheetNames }

SheetInit == InitOn(SheetTemplates, SheetRequests)

SpecSheets == SheetInit /\ [][Next]_vars

\* the workbook part of the template and the names it declares
Workbook == ZipRead(template, WorkbookName)

Declared == { Workbook.sheets[j].name : j \in 1..Len(Workbook.sheets) }

\* C12: a sheet name given to generate that no sheet entry declares makes the
\* call fail with the sheet-not-found error naming it; no part is read for
\* patching and no bytes are returned
UnknownSheetRejected ==
    ( /\ sheet_name # None
      /\ sheet_name \notin Declared
      /\ Workbook.hasSheets
      /\ ~Falsy(cell_updates) )
    => /\ pc \in { "idle", "raised" }
       /\ result = << >>
       /\ pc = "raised"
          => error = Raised("ValueError", "Sheet named not found", << sheet_name >>)

\* the selector is omitted or names a declared sheet
Selectable ==
    /\ Workbook.hasSheets
    /\ Len(Workbook.sheets) > 0
    /\ sheet_name = None \/ sheet_name \in Declared

\* the sheet entry the selector stands for: the first of that name, or the
\* first declared
SelectedRid ==
    IF sheet_name = None THEN Workbook.sheets[1].rid
    ELSE LET named == { j \in 1..Len(Workbook.sheets) :
                          Workbook.sheets[j].name = sheet_name }
         IN  Workbook.sheets[CHOOSE j \in named : \A k \in named : j <= k].rid

\* the relationships with the identifier of the selected sheet entry
SelectedRels ==
    LET rels == ZipRead(template, RelsName).rels
    IN  { rels[j] : j \in { j \in 1..Len(rels) : rels[j].Id = SelectedRid } }

\* the parts of the template that those relationships point to
SelectedParts ==
    { nm \in NameList(template) :
        \E rel \in SelectedRels : nm = rel.Target \/ nm = << "xl" >> \o rel.Target }

\* the worksheet parts of an archive whose bytes are not those of the template
Patched(zf) ==
    { zf[j].filename :
        j \in { j \in 1..Len(zf) :
                  /\ zf[j].filename # SharedStringsName
                  /\ zf[j].data # ZipRead(template, zf[j].filename) } }

\* C13: with a selector that is omitted or names a declared sheet, the part
\* whose tree is updated and every part written with new bytes is the part
\* that the relationship of the selected sheet entry points to (the first
\* entry of that name, or the first declared entry)
SheetSelected ==
    Selectable
    => /\ pc = "cells" => template[item].filename \in SelectedParts
       /\ Patched(zout) \subseteq SelectedParts
       /\ pc = "done" => Patched(result) = SelectedParts

\* a call that named the twice-declared Sheet2, and one that named no sheet
\* of a workbook declaring Sheet2 first, returned bytes
SheetSelectedWitness ==
    /\ pc = "done"
    /\ Patched(result) = { << "xl", "worksheets", "sheet2.xml" >> }
    /\ \/ sheet_name = "Sheet2" /\ Len(Workbook.sheets) = 3
       \/ sheet_name = None /\ Workbook.sheets[1].name = "Sheet2"

\* the template lacks the sheets element, or the relationship of the
\* selected sheet entry, or the sheetData element of the selected part
NoSheetsElement == ~Workbook.hasSheets

NoRelationship == Selectable /\ SelectedRels = {}

NoSheetData ==
    /\ Selectable
    /\ \E nm \in SelectedParts :
          LET data == ZipRead(template, nm)
          IN  data.kind = "sheet" /\ ~data.hasSheetData

\* C19: a template without the sheets element, without the relationship of
\* the selected sheet, or without sheetData in the selected worksheet never
\* yields bytes: the call raises before any part is written (sheets element,
\* relationship) or before the worksheet tree is touched (sheetData)
InvalidTemplateAborts ==
    /\ (NoSheetsElement \/ NoRelationship \/ NoSheetData)
       => pc \notin { "cells", "done" } /\ result = << >>
    /\ (NoSheetsElement \/ NoRelationship)
       => pc \in { "idle", "raised" } /\ zout = << >>
    /\ (pc = "raised" /\ ~Falsy(cell_updates))
       => /\ NoSheetsElement => error.msg = "Unable to find <sheets> element"
          /\ NoRelationship => error.msg = "Relationship ID not found"
          /\ NoSheetData => error.msg = "No sheetData element found"

\* a call raised on the worksheet part without sheetData, after other parts
\* had been written to the output archive
InvalidTemplateAbortsWitness ==
    /\ pc = "raised"
    /\ NoSheetData
    /\ error = Raised("ValueError", "No sheetData element found", << >>)
    /\ Len(zout) > 0

\* ------------------------------------------------------ the values written

\* a worksheet part that holds row 1 only, in a package without shared strings
RowOneXml == [ SheetXml("none") EXCEPT !.rows = << @[1] >> ]

ValueTemplates ==
    { Package(SheetXml("plain"), "plain", FALSE, FALSE),
      Package(SheetXml("none"), "none", FALSE, FALSE),
      Package(RowOneXml, "none", FALSE, FALSE) }

ValueRefs == { << "A", "1" >>, << "B", "1" >>, << "B", "3" >>, << "C", "3" >> }

\* an int, a float (by its repr), a bool and two texts
ValueValues ==
    { PyValue("int", 42, << >>), PyValue("float", 0, << "1", ".", "5" >>),
      PyValue("bool", 1, << >>), PyValue("str", 0, New), PyValue("str", 0, Old) }

ValueRequests ==
    { Request(m, None) : m \in Mappings(MaxUpdates, ValueRefs, ValueValues) }

ValueInit == InitOn(ValueTemplates, ValueRequests)

SpecValues == ValueInit /\ [][Next]_vars

\* the tags of the children of a cell at the positions that hold that tag
KidsTagged(cell, tag) == { k \in 1..Len(cell.kids) : cell.kids[k].tag = tag }

\* what a cell without a formula is after value was written to it
ShapedAs(cell, value) ==
    /\ Cardinality(KidsTagged(cell, "v")) = 1
    /\ KidsTagged(cell, "is") = {}
    /\ value.type \in { "int", "float" }
       => cell.t = NoAttr /\ ValueTexts(cell) = { PyStr(value) }
    /\ (value.type \in { "str", "bool" } /\ UseSharedStrings)
       => /\ cell.t = "s"
          /\ \E p \in Positions(string_table, PyStr(value)) :
                ValueTexts(cell) = { PyStrInt(p - 1) }
    /\ value.type = "bool"
       => /\ cell.t \in { "s", "str" }
          /\ PyStr(value) \in { << "T", "r", "u", "e" >>, << "F", "a", "l", "s", "e" >> }

\* the cells of a tree at the coordinate of update j that carry no formula
Written(rs, j) ==
    { c \in CellsAt(rs, cell_updates[j].cell_ref) : ~CarriesFormula(c) }

\* C14: once an update is applied to a cell without a formula, in the tree
\* and in the part returned, the cell has one v child and no is child; a
\* number leaves no t attribute and its decimal text; a text, with shared
\* strings, leaves t="s" and an index of that text in the table; a bool is
\* written as a text
ValueCellShape ==
    \A j \in 1..Len(cell_updates) :
        /\ upd > j
           => \A c \in Written(rows, j) : ShapedAs(c, cell_updates[j].value)
        /\ \A c \in Written(RowsOfResult, j) : ShapedAs(c, cell_updates[j].value)

\* C14 witness: bytes were returned after a bool was written over the inline
\* string of A1 and a float to another cell
ValueCellShapeWitness ==
    /\ pc = "done"
    /\ \E c \in CellsAt(ZipRead(template, sheet_path).rows, << "A", "1" >>) :
          KidsTagged(c, "is") # {}
    /\ \E j, k \in 1..Len(cell_updates) :
          /\ cell_updates[j].cell_ref = << "A", "1" >>
          /\ cell_updates[j].value.type = "bool"
          /\ Written(RowsOfResult, j) # {}
          /\ cell_updates[k].value.type = "float"
          /\ Written(RowsOfResult, k) # {}

\* the digits of a coordinate of letters and digits
RowDigits(cell_ref) == SubSeq(cell_ref, UpperRun(cell_ref, 1) + 1, Len(cell_ref))

\* the rows of a tree with the row number of that coordinate
RowsOf(rs, cell_ref) ==
    { a \in 1..Len(rs) : RowNumber(rs[a]) = PyInt(RowDigits(cell_ref)) }

\* the coordinates of the applied updates in the row of that coordinate
AppliedInRow(cell_ref) ==
    { cell_updates[k].cell_ref :
        k \in { k \in 1..Len(cell_updates) :
                  upd > k /\ RowDigits(cell_updates[k].cell_ref) = RowDigits(cell_ref) } }

\* C15: when the template has no shared-strings part, every text applied to
\* a cell without a formula is an inline string (t="str", the text in the v
\* child), no shared-strings part is written, and a coordinate of a row that
\* the template lacks yields one row of that number holding the new cells
InlineWithoutSharedStrings ==
    (SharedStringsName \notin NameList(template) /\ pc # "idle" /\ pc # "raised")
    => /\ \A j \in 1..Len(cell_updates) :
             (upd > j /\ cell_updates[j].value.type \in { "str", "bool" })
             => \A c \in Written(rows, j) :
                    /\ c.t = "str"
                    /\ ValueTexts(c) = { PyStr(cell_updates[j].value) }
                    /\ KidsTagged(c, "is") = {}
       /\ SharedStringsName \notin NameList(zout) \cup NameList(result)
       /\ \A j \in 1..Len(cell_updates) :
             LET ref == cell_updates[j].cell_ref
             IN  (upd > j /\ RowsOf(ZipRead(template, sheet_path).rows, ref) = {})
                 => /\ Cardinality(RowsOf(rows, ref)) = 1
                    /\ \A a \in RowsOf(rows, ref) :
                          /\ { rows[a].cells[b].r : b \in 1..Len(rows[a].cells) }
                                = AppliedInRow(ref)
                          /\ Len(rows[a].cells) = Cardinality(AppliedInRow(ref))

\* C15 witness: B3 and C3 were written, one of them a text, to the sheet
\* that held row 1 only, and bytes without a shared-strings part returned
InlineWithoutSharedStringsWitness ==
    /\ pc = "done"
    /\ SharedStringsName \notin NameList(template)
    /\ Len(ZipRead(template, sheet_path).rows) = 1
    /\ Keys(cell_updates) = { << "B", "3" >>, << "C", "3" >> }
    /\ \E j \in 1..Len(cell_updates) : cell_updates[j].value.type = "str"
    /\ Len(ZipRead(result, sheet_path).rows) = 2

\* ------------------------------------------------- concurrent invocations

\* the number of invocations of generate that run against one template
Invocations == 2

\* the locals of the running invocation of generate
Frame ==
    [ pc |-> pc, cell_updates |-> cell_updates, sheet_name |-> sheet_name,
      sheet_path |-> sheet_path, shared_strings_xml |-> shared_strings_xml,
      string_table |-> string_table,
      shared_strings_updated |-> shared_strings_updated, item |-> item,
      zout |-> zout, rows |-> rows, upd |-> upd, result |-> result,
      error |-> error ]

\* the running invocation is suspended and another one resumed, with the
\* string table left to the resumed one as if the two shared it
SwitchSharingTable ==
    /\ \E k \in 1..Len(others) :
          /\ others' = [ others EXCEPT ![k] = Frame ]
          /\ pc' = others[k].pc
          /\ cell_updates' = others[k].cell_updates
          /\ sheet_name' = others[k].sheet_name
          /\ sheet_path' = others[k].sheet_path
          /\ shared_strings_xml' = others[k].shared_strings_xml
          /\ shared_strings_updated' = others[k].shared_strings_updated
          /\ item' = others[k].item
          /\ zout' = others[k].zout
          /\ rows' = others[k].rows
          /\ upd' = others[k].upd
          /\ result' = others[k].result
          /\ error' = others[k].error
    /\ UNCHANGED << exists, request, response, template, string_table >>

\* the running invocation is suspended between two steps and another one
\* resumed: each runs on the locals of its own call of generate (lines
\* 56-95), the template path is what they have in common
Switch ==
    /\ \E k \in 1..Len(others) :
          /\ others' = [ others EXCEPT ![k] = Frame ]
          /\ pc' = others[k].pc
          /\ cell_updates' = others[k].cell_updates
          /\ sheet_name' = others[k].sheet_name
          /\ sheet_path' = others[k].sheet_path
          /\ shared_strings_xml' = others[k].shared_strings_xml
          /\ string_table' = others[k].string_table
          /\ shared_strings_updated' = others[k].shared_strings_updated
          /\ item' = others[k].item
          /\ zout' = others[k].zout
          /\ rows' = others[k].rows
          /\ upd' = others[k].upd
          /\ result' = others[k].result
          /\ error' = others[k].error
    /\ UNCHANGED << exists, request, response, template >>

\* the sequences of n waiting invocations
RECURSIVE FramesOfLen(_, _)
FramesOfLen(n, requests) ==
    IF n = 0 THEN { << >> }
    ELSE UNION { { Append(fs, IdleFrame(req)) : req \in requests } :
                 fs \in FramesOfLen(n - 1, requests) }

\* a call that adds a text, one that replaces a text and writes a number,
\* and one that raises
ConcRequests ==
    { Request(<< Update(<< "B", "3" >>, PyValue("str", 0, New)) >>, None),
      Request(<< Update(<< "A", "1" >>, PyValue("str", 0, Neu)),
                 Update(<< "C", "2" >>, PyValue("int", 42, << >>)) >>, None),
      Request(<< Update(<< "b", "3" >>, PyValue("str", 0, New)) >>, None) }

ConcTemplates == { Package(SheetXml("plain"), "plain", FALSE, FALSE) }

ConcInit ==
    InitWith(ConcTemplates, ConcRequests, FramesOfLen(Invocations - 1, ConcRequests))

ConcNext ==
    \/ Next
    \/ Switch

SpecConc == ConcInit /\ [][ConcNext]_vars

\* the loop of _update_cells over the updates from the j-th on
RECURSIVE UpdateAll(_, _, _, _, _)
UpdateAll(rs, updates, j, table, use_shared_strings) ==
    IF j > Len(updates)
    THEN [ raised |-> FALSE, rows |-> rs, string_table |-> table ]
    ELSE LET res == UpdateOne(rs, updates[j].cell_ref, updates[j].value, table,
                              use_shared_strings)
         IN  IF res.raised THEN res
             ELSE UpdateAll(res.rows, updates, j + 1, res.string_table,
                            use_shared_strings)

\* the loop of generate (lines 76-92) over the parts from the j-th on
RECURSIVE WriteParts(_, _, _, _, _, _, _)
WriteParts(zf, j, path, updates, table, use_shared_strings, out) ==
    IF j > Len(zf) THEN [ raised |-> FALSE, result |-> out ]
    ELSE
    LET it   == zf[j]
        data == ZipRead(zf, it.filename)
    IN  IF it.filename = path
        THEN IF ~HasSheetData(data) THEN [ raised |-> TRUE, result |-> << >> ]
             ELSE LET res == UpdateAll(data.rows, updates, 1, table,
                                       use_shared_strings)
                  IN  IF res.raised THEN [ raised |-> TRUE, result |-> << >> ]
                      ELSE WriteParts(zf, j + 1, path, updates, res.string_table,
                                      use_shared_strings,
                                      Append(out, WriteStr(it, SheetToString(data, res.rows))))
        ELSE IF it.filename = SharedStringsName /\ Len(table) > 0
        THEN WriteParts(zf, j + 1, path, updates, table, use_shared_strings,
                        Append(out, WriteStr(it, _rebuild_shared_strings(table))))
        ELSE WriteParts(zf, j + 1, path, updates, table, use_shared_strings,
                        Append(out, WriteStr(it, data)))

\* generate, run from its call to its return with nothing in between: what
\* it returns, or that it raises
generate(zf, updates, name) ==
    IF Falsy(updates) THEN [ raised |-> TRUE, result |-> << >> ]
    ELSE LET found  == IF Truthy(name) THEN _find_sheet_path_by_name(zf, name)
                       ELSE _find_first_sheet_path(zf)
             shared == SharedStringsName \in NameList(zf)
         IN  IF found.raised THEN [ raised |-> TRUE, result |-> << >> ]
             ELSE WriteParts(zf, 1, found.path, updates,
                             IF shared
                             THEN _parse_shared_strings(ZipRead(zf, SharedStringsName))
                             ELSE << >>,
                             shared, << >>)

\* the locals of every invocation, the running one first
Frames == << Frame >> \o others

\* the texts of the updates of an invocation
OwnTexts(f) == { PyStr(f.cell_updates[j].value) : j \in 1..Len(f.cell_updates) }

\* the coordinates of the cells of a tree
Coordinates(rs) ==
    UNION { { rs[a].cells[b].r : b \in 1..Len(rs[a].cells) } : a \in 1..Len(rs) }

\* every invocation returns what it returns when it runs alone, and raises
\* when it raises alone; its string table and its tree hold, beyond what the
\* template holds, only texts and coordinates of its own updates
IsolatedOutputs ==
    \A k \in 1..Len(Frames) :
        LET f      == Frames[k]
            alone  == generate(template, f.cell_updates, f.sheet_name)
            loaded == TableOf(template)
        IN  /\ f.pc = "done" => ~alone.raised /\ f.result = alone.result
            /\ f.pc = "raised" => alone.raised
            /\ f.pc # "done" => f.result = << >>
            /\ \A p \in 1..Len(f.string_table) :
                  \/ p <= Len(loaded) /\ f.string_table[p] = loaded[p]
                  \/ p > Len(loaded) /\ f.string_table[p] \in OwnTexts(f)
            /\ f.pc = "cells"
               => Coordinates(f.rows)
                    \subseteq Coordinates(ZipRead(template, f.sheet_path).rows)
                               \cup Keys(f.cell_updates)

\* C16: in every interleaving of the steps of the invocations that run
\* against one template, each invocation returns the output it returns when
\* it runs alone, none sees a table entry, row or cell of another, and the
\* template is never written
ConcurrentIsolation == []IsolatedOutputs /\ [][template' = template]_vars

\* C16 witness: two invocations with different updates are both inside the
\* loop of _update_cells, each with a text of its own appended to its table
ConcurrentIsolationWitness ==
    /\ Len(others) > 0
    /\ pc = "cells"
    /\ others[1].pc = "cells"
    /\ upd > 1
    /\ others[1].upd > 1
    /\ Len(string_table) > Len(TableOf(template))
    /\ Len(others[1].string_table) > Len(TableOf(template))
    /\ string_table # others[1].string_table

\* ------------------------------------------------------------ the endpoint

\* TEMPLATE_CONFIG.get(template_name, {}): the sheet name and the field map
\* of the configured template, None and no field for any other
TemplateConfig(template_name) ==
    IF template_name = "Template.xlsx"
    THEN [ sheet_name |-> "Maintenance Template",
           fields |-> << [ field |-> << "m", "s", "n" >>, cell |-> << "C", "6" >> ],
                         [ field |-> << "l", "e", "s", "s", "e", "e" >>,
                           cell |-> << "C", "9" >> ] >> ]
    ELSE [ sheet_name |-> None, fields |-> << >> ]

\* a or b, of two optional strings
Or(a, b) == IF Truthy(a) THEN a ELSE b

\* cell_updates[cell_ref] = value: a key that is there keeps its place
DictSet(mapping, cell_ref, value) ==
    IF cell_ref \in Keys(mapping)
    THEN [ mapping EXCEPT
             ![CHOOSE j \in 1..Len(mapping) : mapping[j].cell_ref = cell_ref].value = value ]
    ELSE Append(mapping, Update(cell_ref, value))

\* the loop of lines 126-133 over the items of request.data from the j-th on
RECURSIVE MapFields(_, _, _, _)
MapFields(data, field_map, j, cell_updates_) ==
    IF j > Len(data) THEN cell_updates_
    ELSE LET key  == data[j].cell_ref
             hits == { k \in 1..Len(field_map) : field_map[k].field = key }
             ref  == IF hits # {} THEN field_map[CHOOSE k \in hits : TRUE].cell
                     ELSE key
         IN  MapFields(data, field_map, j + 1,
                       DictSet(cell_updates_, ref, data[j].value))

\* the handler without the test of template_path.exists()
GenerateXlsxUnchecked ==
    /\ pc = "request"
    /\ LET config  == TemplateConfig(request.template_name)
           updates == MapFields(request.data, config.fields, 1, << >>)
       IN  IF Falsy(updates)
           THEN /\ response' = Response(400, << "No", "valid", "cell", "updates",
                                                "provided" >>)
                /\ pc' = "responded"
                /\ UNCHANGED << cell_updates, sheet_name >>
           ELSE /\ cell_updates' = updates
                /\ sheet_name' = Or(request.sheet_name, config.sheet_name)
                /\ pc' = "new"
                /\ UNCHANGED response
    /\ UNCHANGED << exists, request, others, template, sheet_path,
                    shared_strings_xml, string_table, shared_strings_updated,
                    item, zout, rows, upd, result, error >>

\* generate_xlsx, lines 108-139: the test of the template path, the sheet
\* name, the mapping of the field names and the test of the mapping
generate_xlsx ==
    /\ pc = "request"
    /\ IF ~exists
       THEN /\ response' = Response(404, << "Template", request.template_name,
                                            "not", "found" >>)
            /\ pc' = "responded"
            /\ UNCHANGED << cell_updates, sheet_name >>
       ELSE LET config  == TemplateConfig(request.template_name)
                updates == MapFields(request.data, config.fields, 1, << >>)
            IN  IF Falsy(updates)
                THEN /\ response' = Response(400, << "No", "valid", "cell",
                                                     "updates", "provided" >>)
                     /\ pc' = "responded"
                     /\ UNCHANGED << cell_updates, sheet_name >>
                ELSE /\ cell_updates' = updates
                     /\ sheet_name' = Or(request.sheet_name, config.sheet_name)
                     /\ pc' = "new"
                     /\ UNCHANGED response
    /\ UNCHANGED << exists, request, others, template, sheet_path,
                    shared_strings_xml, string_table, shared_strings_updated,
                    item, zout, rows, upd, result, error >>

\* XLSXGenerator(template_path), lines 33-35
Construct ==
    /\ pc = "new"
    /\ IF ~exists
       THEN Raise(Raised("FileNotFoundError", "Template not found", << >>))
       ELSE /\ pc' = "idle"
            /\ UNCHANGED << exists, request, response, others, template,
                            cell_updates, sheet_name, sheet_path,
                            shared_strings_xml, string_table,
                            shared_strings_updated, item, zout, rows, upd,
                            result, error >>

\* generate_xlsx, lines 145-171: the exception of the generator as a status,
\* or the bytes returned
Respond ==
    /\ request # NoRequest
    /\ pc \in { "raised", "done" }
    /\ response' =
          IF pc = "done" THEN Response(200, << "XLSX", "generated", "successfully" >>)
          ELSE IF error.type = "ValueError" THEN Response(400, << error.msg >>)
          ELSE Response(500, << "Error", "generating", "XLSX", error.msg >>)
    /\ pc' = "responded"
    /\ UNCHANGED << exists, request, others, template, cell_updates,
                    sheet_name, sheet_path, shared_strings_xml, string_table,
                    shared_strings_updated, item, zout, rows, upd, result,
                    error >>

\* the template served: its second sheet has the configured name
ApiTemplate ==
    PackageOf([ kind |-> "workbook", hasSheets |-> TRUE,
                sheets |-> << [ name |-> "Sheet1", rid |-> "rId1" ],
                              [ name |-> "Maintenance Template", rid |-> "rId2" ] >> ],
              SheetXml("plain"))

\* the keys of request.data: a field name and two cell references
ApiKeys == { << "m", "s", "n" >>, << "C", "6" >>, << "B", "3" >> }

ApiValues == { PyValue("int", 42, << >>), PyValue("str", 0, New) }

ApiRequests ==
    { ApiRequest(t, m, n) :
        t \in { "Template.xlsx", "plain.xlsx" },
        m \in Mappings(MaxUpdates, ApiKeys, ApiValues),
        n \in { None, "Sheet1", "DoesNotExist" } }

\* the direct uses of the generator
DirectRequests ==
    { Request(m, None) :
        m \in { << >>, << Update(<< "B", "3" >>, PyValue("str", 0, New)) >> } }

\* a request arrives at the endpoint, or a generator is about to be
\* constructed; the template path names a file or names none
ApiInit ==
    /\ exists \in BOOLEAN
    /\ template = IF exists THEN ApiTemplate ELSE << >>
    /\ \/ /\ request \in ApiRequests
          /\ pc = "request"
          /\ cell_updates = << >>
          /\ sheet_name = None
       \/ /\ request = NoRequest
          /\ pc = "new"
          /\ \E req \in DirectRequests :
                /\ cell_updates = req.cell_updates
                /\ sheet_name = req.sheet_name
    /\ response = NoResponse
    /\ others = << >>
    /\ sheet_path = << >>
    /\ shared_strings_xml = NoBytes
    /\ string_table = << >>
    /\ shared_strings_updated = FALSE
    /\ item = 0
    /\ zout = << >>
    /\ rows = << >>
    /\ upd = 0
    /\ result = << >>
    /\ error = NoError

ApiNext ==
    \/ generate_xlsx
    \/ Construct
    \/ Next
    \/ Respond

SpecApi == ApiInit /\ [][ApiNext]_vars

\* no part was read and nothing was written
Untouched ==
    /\ item = 0
    /\ sheet_path = << >>
    /\ shared_strings_xml = NoBytes
    /\ string_table = << >>
    /\ rows = << >>
    /\ zout = << >>
    /\ result = << >>

\* C17: an empty update mapping never yields bytes: the endpoint answers
\* 404 when the template is missing and 400 when it is there, generate
\* raises ValueError, and no part is read or written
EmptyRejected ==
    /\ (request # NoRequest /\ Len(request.data) = 0)
       => /\ pc \in { "request", "responded" }
          /\ Untouched
          /\ pc = "responded" => response.status = IF exists THEN 400 ELSE 404
    /\ (request = NoRequest /\ Len(cell_updates) = 0)
       => /\ pc \in { "new", "idle", "raised" }
          /\ Untouched
          /\ (pc = "raised" /\ exists) => error.type = "ValueError"

\* C17 witness: the endpoint answered 400 to an empty mapping for a template
\* that exists
EmptyRejectedWitness ==
    /\ request # NoRequest
    /\ Len(request.data) = 0
    /\ exists
    /\ pc = "responded"
    /\ response.status = 400

\* detail.lower(), word by word
Lower(word) == IF word = "Template" THEN "template" ELSE word

\* "not found" in the words joined by spaces
HasNotFound(words) ==
    \E j \in 1..(Len(words) - 1) :
        Lower(words[j]) = "not" /\ Lower(words[j + 1]) = "found"

\* C18: when the template path names no file, no part is read or written;
\* the constructor raises FileNotFoundError and the endpoint answers 404
\* with a detail that says "not found", whatever the request holds
MissingTemplateRejected ==
    ~exists
    => /\ pc \in { "request", "new", "raised", "responded" }
       /\ Untouched
       /\ pc = "raised" => error.type = "FileNotFoundError"
       /\ pc = "responded"
          => response.status = 404 /\ HasNotFound(response.detail)
       /\ request # NoRequest => pc \in { "request", "responded" }

\* C18 witness: the endpoint answered 404 to a request with updates
MissingTemplateRejectedWitness ==
    /\ ~exists
    /\ pc = "responded"
    /\ Len(request.data) > 0
    /\ response.status = 404

\* ------------------------------------------------ repeats in the string table

\* the pairs of positions of a table that hold equal text
Repeats(table) ==
    { pq \in (1..Len(table)) \X (1..Len(table)) :
        pq[1] < pq[2] /\ table[pq[1]] = table[pq[2]] }

\* C20 (as claimed): whatever table was loaded, no two positions of the
\* string table hold equal text
TableDistinct == Repeats(string_table) = {}

\* C20 (amended): the table begins with the entries loaded, and two positions
\* hold equal text only when both are positions of the loaded table: no
\* update adds a text that the table holds
NoNewRepeats ==
    UseSharedStrings
    => LET loaded == TableOf(template)
       IN  /\ Len(string_table) >= Len(loaded)
           /\ SubSeq(string_table, 1, Len(loaded)) = loaded
           /\ \A pq \in Repeats(string_table) : pq[2] <= Len(loaded)

\* C20 witness: on a table loaded with a repeated text, that text and a text
\* the table lacked were written, and the table grew by one
NoNewRepeatsWitness ==
    /\ AllApplied
    /\ UseSharedStrings
    /\ Repeats(TableOf(template)) # {}
    /\ \E j, k \in 1..Len(cell_updates) :
          /\ WritesText(cell_updates[j])
          /\ WritesText(cell_updates[k])
          /\ PyStr(cell_updates[j].value) = Old
          /\ PyStr(cell_updates[k].value) \notin Range(TableOf(template))
    /\ Len(string_table) = Len(TableOf(template)) + 1

\* ------------------------------------------------- the order of the updates

\* a worksheet part whose row 2 holds C2, Z2 and AA2 in column order
OrderXml ==
    [ kind |-> "sheet", decl |-> TRUE, hasSheetData |-> TRUE,
      rows |-> <<
        Row(<< "2" >>, NoAttr, <<
            Cell(<< "C", "2" >>, "s", NoAttr, << [ tag |-> "v", text |-> << "0" >> ] >>),
            Cell(<< "Z", "2" >>, NoAttr, NoAttr, << [ tag |-> "v", text |-> << "1" >> ] >>),
            Cell(<< "A", "A", "2" >>, NoAttr, NoAttr,
                 << [ tag |-> "v", text |-> << "2" >> ] >>) >>),
        Row(<< "4" >>, NoAttr, <<
            Cell(<< "A", "4" >>, NoAttr, "2", << [ tag |-> "v", text |-> << "2" >> ] >>) >>)
      >> ]

OrderTemplates == { Package(OrderXml, "plain", FALSE, FALSE) }

\* coordinates of a cell that is there, of cells of rows that are there and
\* of rows that are not, two of them with the same column and row number
OrderRefs ==
    { << "C", "2" >>, << "B", "2" >>, << "A", "B", "2" >>, << "A", "3" >>,
      << "A", "0", "3" >>, << "B", "5" >> }

OrderValues == { PyValue("str", 0, New), PyValue("str", 0, Neu) }

OrderRequests ==
    { Request(m, None) : m \in Mappings(MaxUpdates, OrderRefs, OrderValues) }

OrderInit == InitOn(OrderTemplates, OrderRequests)

SpecOrder == OrderInit /\ [][Next]_vars

\* the orders in which a set of updates can be iterated
RECURSIVE Orders(_)
Orders(updates) ==
    IF updates = {} THEN { << >> }
    ELSE UNION { { << u >> \o rest : rest \in Orders(updates \ { u }) } :
                 u \in updates }

\* the children of a shared-string cell with the index replaced by the text
\* it stands for
RECURSIVE ResolvedKids(_, _)
ResolvedKids(kids, table) ==
    IF Len(kids) = 0 THEN << >>
    ELSE LET kid == Head(kids)
             n   == PyInt(kid.text)
         IN  << IF kid.tag = "v" /\ n < Len(table)
                THEN [ kid EXCEPT !.text = table[n + 1] ] ELSE kid >>
             \o ResolvedKids(Tail(kids), table)

RECURSIVE ResolvedCells(_, _)
ResolvedCells(cells, table) ==
    IF Len(cells) = 0 THEN << >>
    ELSE LET c == Head(cells)
         IN  << IF c.t = "s" /\ ~CarriesFormula(c)
                THEN [ c EXCEPT !.kids = ResolvedKids(c.kids, table) ] ELSE c >>
             \o ResolvedCells(Tail(cells), table)

\* a worksheet tree up to the numbering of the shared strings
RECURSIVE Resolved(_, _)
Resolved(rs, table) ==
    IF Len(rs) = 0 THEN << >>
    ELSE << [ Head(rs) EXCEPT !.cells = ResolvedCells(Head(rs).cells, table) ] >>
         \o Resolved(Tail(rs), table)

\* the updates of the call, applied to the target sheet in that order
InOrder(order) ==
    UpdateAll(ZipRead(template, sheet_path).rows, order, 1, TableOf(template),
              UseSharedStrings)

\* C21: the tree that the call leaves is, up to the numbering of the shared
\* strings, the tree that every other iteration order of the same updates
\* leaves: the same rows and the same cells in the same order, each cell
\* with the same value and type
OrderIndependent ==
    (AllApplied /\ sheet_path \in NameList(template))
    => \A order \in Orders(Range(cell_updates)) :
           /\ ~InOrder(order).raised
           /\ Resolved(InOrder(order).rows, InOrder(order).string_table)
                = Resolved(rows, string_table)

\* ------------------------------------------------ what an update leaves alone

\* a worksheet part whose row 1 carries attributes and holds a shared-string
\* cell A1, a formula cell B1 and a styled cell D1 with an extLst child
\* before its value; row 3 holds C3
FrameXml ==
    [ kind |-> "sheet", decl |-> TRUE, hasSheetData |-> TRUE,
      rows |-> <<
        Row(<< "1" >>, "ht=20", <<
            Cell(<< "A", "1" >>, "s", "1", << [ tag |-> "v", text |-> << "0" >> ] >>),
            Cell(<< "B", "1" >>, "str", "4",
                 << [ tag |-> "f", text |-> << "A", "1" >> ],
                    [ tag |-> "v", text |-> Old ] >>),
            Cell(<< "D", "1" >>, NoAttr, "3",
                 << [ tag |-> "extLst", text |-> << "e" >> ],
                    [ tag |-> "v", text |-> << "8" >> ] >>) >>),
        Row(<< "3" >>, "hidden=1", <<
            Cell(<< "C", "3" >>, NoAttr, "2", << [ tag |-> "v", text |-> << "7" >> ] >>) >>)
      >> ]

FrameTemplates == { Package(FrameXml, "plain", FALSE, FALSE) }

FrameRefs ==
    { << "A", "1" >>, << "B", "1" >>, << "C", "1" >>, << "D", "1" >>,
      << "B", "2" >>, << "A", "3" >> }

FrameValues == { PyValue("int", 42, << >>), PyValue("str", 0, New) }

FrameRequests ==
    { Request(m, None) : m \in Mappings(MaxUpdates, FrameRefs, FrameValues) }

FrameInit == InitOn(FrameTemplates, FrameRequests)

SpecFrame == FrameInit /\ [][Next]_vars

\* the rows of the target sheet of the template
TemplateRows ==
    IF sheet_path \in NameList(template)
    THEN ZipRead(template, sheet_path).rows ELSE << >>

\* the rows with the cells that no update targets, in their order
RECURSIVE Untargeted(_)
Untargeted(rs) ==
    IF Len(rs) = 0 THEN << >>
    ELSE << [ Head(rs) EXCEPT
                !.cells = SelectSeq(@, LAMBDA c : c.r \notin Keys(cell_updates)) ] >>
         \o Untargeted(Tail(rs))

\* the rows of a tree that the template holds, by their row attribute
Kept(rs) ==
    SelectSeq(rs, LAMBDA row :
        row.r \in { TemplateRows[a].r : a \in 1..Len(TemplateRows) })

\* the children of a cell other than the v and is children
OtherKids(cell) == SelectSeq(cell.kids, LAMBDA kid : kid.tag \notin { "v", "is" })

\* a tree keeps the rows of the template with their attributes and their
\* untargeted cells as they were and in their order; a targeted cell of the
\* template keeps its style and its other children, and all of it when it
\* carries a formula
FrameOf(rs) ==
    /\ Untargeted(Kept(rs)) = Untargeted(TemplateRows)
    /\ \A ref \in Keys(cell_updates) :
          \A c0 \in CellsAt(TemplateRows, ref) :
              /\ CellsAt(rs, ref) # {}
              /\ \A c \in CellsAt(rs, ref) :
                    /\ c.s = c0.s
                    /\ OtherKids(c) = OtherKids(c0)
                    /\ CarriesFormula(c0) => c = c0

\* C22: at every step of _update_cells and in the part returned, every cell
\* that is not a target is as it was and in its place, every row of the
\* template keeps its attributes, and a targeted cell keeps its style and
\* every child but the v and is children
FramePreserved ==
    /\ upd > 0 => FrameOf(rows)
    /\ (pc = "done" /\ sheet_path \in NameList(result)) => FrameOf(RowsOfResult)

\* C22 witness: bytes were returned after the styled cell D1 with its extLst
\* child was overwritten and a cell C1 was created between B1 and D1
FramePreservedWitness ==
    /\ pc = "done"
    /\ Keys(cell_updates) = { << "D", "1" >>, << "C", "1" >> }
    /\ \E c \in CellsAt(RowsOfResult, << "D", "1" >>) :
          ValueTexts(c) # { << "8" >> }
    /\ Len(RowsOfResult[1].cells) = 4

\* ------------------------------------------- what changes the string table

\* the update is a text that is applied, with shared strings, to a cell
\* without a formula, and the table does not hold the text
AddsText(u) ==
    /\ UseSharedStrings
    /\ u.value.type \in { "str", "bool" }
    /\ ~_get_row_number(u.cell_ref).raised
    /\ \A c \in CellsAt(rows, u.cell_ref) : ~CarriesFormula(c)
    /\ PyStr(u.value) \notin Range(string_table)

\* C23: once loaded, the string table changes only in the pass of the loop
\* of _update_cells that applies a text the table lacks, which appends that
\* text; a number, a text the table holds and a text for a formula cell
\* leave its length and its contents as they are, and so does every other
\* step
TableChangedByNewTextOnly ==
    [][ (pc = "loop" \/ pc = "cells")
        => ( IF pc = "cells" /\ upd <= Len(cell_updates) /\ AddsText(cell_updates[upd])
             THEN string_table' = Append(string_table, PyStr(cell_updates[upd].value))
             ELSE string_table' = string_table ) ]_vars

\* C23 witness: a text the table lacked was skipped on the formula cell and
\* a text the table held was written, and the table is the one loaded
TableChangedByNewTextOnlyWitness ==
    /\ AllApplied
    /\ UseSharedStrings
    /\ \E j, k \in 1..Len(cell_updates) :
          /\ TargetsFormula(cell_updates[j])
          /\ PyStr(cell_updates[j].value) = New
          /\ ~TargetsFormula(cell_updates[k])
          /\ PyStr(cell_updates[k].value) = Old
    /\ Len(string_table) > 0
    /\ string_table = TableOf(template)

\* --------------------------------------------------------- row number zero

\* a worksheet part whose first row has no r attribute, as the format
\* allows; its cell has none either
BareRowXml ==
    [ kind |-> "sheet", decl |-> TRUE, hasSheetData |-> TRUE,
      rows |-> <<
        Row(NoText, NoAttr, <<
            Cell(NoText, NoAttr, NoAttr, << [ tag |-> "v", text |-> << "5" >> ] >>) >>),
        Row(<< "3" >>, NoAttr, <<
            Cell(<< "C", "3" >>, NoAttr, "2", << [ tag |-> "v", text |-> << "7" >> ] >>) >>)
      >> ]

ZeroTemplates ==
    { Package(SheetXml("plain"), "plain", FALSE, FALSE),
      Package(BareRowXml, "plain", FALSE, FALSE) }

\* coordinates with the row digits "0" and coordinates of rows 1 and 3
ZeroRefs ==
    { << "A", "0" >>, << "B", "0" >>, << "A", "1" >>, << "C", "3" >> }

ZeroValues == { PyValue("int", 42, << >>), PyValue("str", 0, New) }

ZeroRequests ==
    { Request(m, None) : m \in Mappings(MaxUpdates, ZeroRefs, ZeroValues) }

ZeroInit == InitOn(ZeroTemplates, ZeroRequests)

SpecZero == ZeroInit /\ [][Next]_vars

\* every row with a row number has a positive one, and a row without one is
\* a row of the template as it was
RowsPositive(rs) ==
    \A a \in 1..Len(rs) :
        IF rs[a].r = NoText
        THEN \E b \in 1..Len(TemplateRows) : TemplateRows[b] = rs[a]
        ELSE PyInt(rs[a].r) > 0

\* C24 (as claimed): no update that _update_cells accepts creates a row
\* numbered 0 or attaches a cell to a row of the template that has no row
\* number, in the tree after every pass and in the worksheet part written
PositiveRowNumbers ==
    /\ (pc \in { "cells", "loop", "done" } /\ upd > 0 /\ error = NoError)
           => RowsPositive(rows)
    /\ (pc = "done" /\ sheet_path \in NameList(result)) => RowsPositive(RowsOfResult)

\* ------------------------------------------ references into the string table

\* the index that a shared-string cell holds names an entry of the table and
\* the entry is the text
RefersTo(cell, text, table) ==
    \A v \in ValueTexts(cell) :
        \E n \in 0..(Len(table) - 1) : v = PyStrInt(n) /\ table[n + 1] = text

\* C25 (as claimed): in every output of generate(), with the shared-strings
\* part before or after the worksheet part and with an empty table in the
\* template, the index written into a patched cell of type shared-string is
\* below the number of entries of the shared-strings part of that output
\* and the entry at the index is the text written
NoDanglingReference ==
    (pc = "done" /\ sheet_path \in NameList(result)) =>
        \A j \in 1..Len(cell_updates) :
            LET u == cell_updates[j]
            IN  (u.value.type \in { "str", "bool" } /\ ~TargetsFormula(u)) =>
                    \A c \in CellsAt(RowsOfResult, u.cell_ref) :
                        c.t = "s" => RefersTo(c, PyStr(u.value), TableOf(result))


====
